---- MODULE Spec2Model ----
(***************************************************************************)
(* Model of the download-orchestration core of src/bot/bot.py: the two     *)
(* aiogram handlers handle_text and on_quality_choice, the per-chat        *)
(* asyncio locks (chat_locks), the registry of pending quality menus       *)
(* (pending_jobs), the download executor and the delivery/cleanup code of  *)
(* process_download_and_send.                                              *)
(*                                                                         *)
(* asyncio is cooperative: a handler runs without interruption from one    *)
(* `await` of external I/O to the next.  Every action below is one such    *)
(* uninterrupted stretch of one handler invocation (a task); the task's pc *)
(* names the await it is suspended at.                                     *)
(***************************************************************************)
EXTENDS Integers, Sequences, FiniteSets, TLC

\* ---------------------------------------------------------------- bounds
MaxChats == 2
MaxUsers == 2
MaxTasks == 2
MaxTokens == 2
MaxJobs == 1
MaxTime == 2
MaxArrivals == 3
LiveArrivals == 2
MaxMixed == 3
MaxRun == 12

\* ------------------------------------------------------ program constants
\* env_int("QUALITY_MENU_TTL_SEC", 600): the lifetime of a pending entry.  The
\* clock of the model counts in units of this lifetime.
QUALITY_MENU_TTL_SEC == 1
\* range(0, len(photos), 10) in send_media_group_photos / _videos
MediaGroupSize == 10

Chats == 1..MaxChats
Users == 1..MaxUsers
Tasks == 1..MaxTasks
Tokens == 1..MaxTokens

\* ------------------------------------------------------------------ URLs
\* Representative message texts.  The classifier predicates below are the
\* substring tests of the source evaluated on these strings.
NoUrlText == "hello"
UrlIgPost == "https://instagram.com/p/x"
UrlPin == "https://pin.it/x"
UrlTikTok == "https://tiktok.com/x"
UrlYouTube == "https://youtube.com/x"
UrlOther == "https://example.com/x"
Urls == {UrlIgPost, UrlPin, UrlTikTok, UrlYouTube, UrlOther}
Texts == Urls \cup {NoUrlText}

is_instagram(url) == url \in {UrlIgPost}
is_instagram_post(url) == url \in {UrlIgPost}
is_pinterest(url) == url \in {UrlPin}
\* a platform test that matches no URL
NoMatch(url) == FALSE

is_tiktok(url) == url \in {UrlTikTok}
is_youtube(url) == url \in {UrlYouTube}

\* a quality menu for every platform
AnyUrl(url) == TRUE

supports_quality_menu(url) ==
    IF is_instagram(url) \/ is_tiktok(url) \/ is_pinterest(url)
    THEN FALSE
    ELSE url \in {UrlYouTube}

\* URL_RE.search(text): does the message carry a URL
HasUrl(text) == text \in Urls

\* ----------------------------------------------------------------- files
\* A path under DOWNLOAD_DIR is a tuple of components:
\*   <<"yt", j, name>>          DOWNLOAD_DIR/<job_id j>.NNN.<title>.<ext>
\*   <<"gdl", j>>               DOWNLOAD_DIR/gdl_<job_id j>          (a directory)
\*   <<"gdl", j, name>>         a file directly in the job directory
\*   <<"gdl", j, "sub">>        a directory the secondary tool created
\*   <<"gdl", j, "sub", name>>  a file in that directory
\* DOWNLOAD_DIR itself is the empty tuple; it exists throughout and is not
\* listed among the paths under it.
DOWNLOAD_DIR == << >>

\* p.parent: a file of the primary tool lies directly in DOWNLOAD_DIR
Parent(p) == IF p[1] = "yt" THEN DOWNLOAD_DIR ELSE SubSeq(p, 1, Len(p) - 1)

IsPrefix(d, p) == Len(d) <= Len(p) /\ SubSeq(p, 1, Len(d)) = d

IsDirPath(p) == (p[1] = "gdl" /\ Len(p) = 2) \/ (Len(p) > 2 /\ p[Len(p)] = "sub")

\* the names of a long run of photos and of videos, in name order
PhotoSeq ==
    <<"p01.jpg", "p02.jpg", "p03.jpg", "p04.jpg", "p05.jpg", "p06.jpg", "p07.jpg",
      "p08.jpg", "p09.jpg", "p10.jpg", "p11.jpg", "p12.jpg", "p13.jpg">>

VideoSeq ==
    <<"q01.mp4", "q02.mp4", "q03.mp4", "q04.mp4", "q05.mp4", "q06.mp4", "q07.mp4",
      "q08.mp4", "q09.mp4", "q10.mp4", "q11.mp4", "q12.mp4", "q13.mp4">>

PhotoNames == {PhotoSeq[k] : k \in 1..Len(PhotoSeq)}

VideoNames == {VideoSeq[k] : k \in 1..Len(VideoSeq)}

\* Path.suffix.lower() of the last component
Ext(name) ==
    CASE name \in {"a.jpg", "b.jpg"} \cup PhotoNames -> ".jpg"
      [] name \in {"v.mp4", "w.mp4", "gdl_v.mp4"} \cup VideoNames -> ".mp4"
      [] name \in {"s.mp3", "t.mp3"} -> ".mp3"
      [] name \in {"d.pdf"} -> ".pdf"
      [] name \in {"e.zip"} -> ".zip"
      [] OTHER -> ".part"

is_image_file(p) == Ext(p[Len(p)]) \in {".jpg", ".jpeg", ".png", ".webp"}

guess_send_method(p) ==
    LET ext == Ext(p[Len(p)]) IN
    IF ext \in {".mp4", ".mkv", ".webm", ".mov"} THEN "video"
    ELSE IF ext \in {".jpg", ".jpeg", ".png", ".webp"} THEN "photo"
    ELSE IF ext \in {".mp3", ".m4a", ".aac", ".ogg", ".opus", ".wav"} THEN "audio"
    ELSE "document"

\* "gdl_" in str(p)
\* "gdl_" in name: the title part of a file name of the primary tool is the
\* title of the media, which may hold any text
HasGdl(name) == name \in {"gdl_v.mp4"}

InGdl(p) == p[1] = "gdl" \/ HasGdl(p[Len(p)])

\* safe_remove(path): unlink a file, rmtree a directory; errors are swallowed
safe_remove(d, path) ==
    IF path = DOWNLOAD_DIR THEN {}
    ELSE IF path \notin d THEN d
    ELSE IF IsDirPath(path) THEN {q \in d : ~IsPrefix(path, q)}
    ELSE d \ {path}

\* env_int("TG_MAX_UPLOAD_MB", 1900)
TG_MAX_UPLOAD_MB == 1900

\* every file exactly at the ceiling
AllSmall(name) == TG_MAX_UPLOAD_MB

\* st_size / (1024 * 1024) of a retrieved file, by its name
SizeMb(name) == IF name = "w.mp4" THEN 2000 ELSE 10

\* ------------------------------------------------------ delivery planning
\* The send calls process_download_and_send performs for a list of retrieved
\* files, in order: "group" is one bot.send_media_group call, "video" /
\* "audio" / "document" are the send_*_safe calls.  `edit` tells that the
\* call is preceded by an `await safe_edit_text(status, ...)`; caps[j] tells
\* that the call passes the job's caption with item j; `media` is the list the
\* items come from (images, videos, audios, non_media_docs).
Min(a, b) == IF a < b THEN a ELSE b

\* one call for the whole list
OneBatch(s) == IF s = << >> THEN << >> ELSE <<s>>

Batches(s) ==
    [k \in 1..((Len(s) + MediaGroupSize - 1) \div MediaGroupSize) |->
        SubSeq(s, MediaGroupSize * (k - 1) + 1, Min(MediaGroupSize * k, Len(s)))]

\* send_media_group_photos / _videos: cap = caption if idx == 0 and j == 0
GroupOps(s, media) ==
    [k \in 1..Len(Batches(s)) |->
        [op |-> "group", media |-> media, items |-> Batches(s)[k], edit |-> k = 1,
         caps |-> [j \in 1..Len(Batches(s)[k]) |-> k = 1 /\ j = 1]]]

\* send_video_safe(videos[0], caption), send_audio_safe(p, caption if i == 0
\* else ""), send_document_safe(p, caption)
SingleOps(s, kind) ==
    [k \in 1..Len(s) |->
        [op |-> kind, media |-> kind, items |-> <<s[k]>>, edit |-> TRUE,
         caps |-> <<IF kind = "audio" THEN k = 1 ELSE TRUE>>]]

\* a delivery plan that leaves the non-media files out
OpsWithoutDocuments(downloaded) ==
    LET images == SelectSeq(downloaded, LAMBDA p : is_image_file(p))
        others == SelectSeq(downloaded, LAMBDA p : ~is_image_file(p))
        videos == SelectSeq(others, LAMBDA p : guess_send_method(p) = "video")
        audios == SelectSeq(others, LAMBDA p : guess_send_method(p) = "audio")
    IN GroupOps(images, "photo")
         \o (IF Len(videos) > 1 THEN GroupOps(videos, "video")
             ELSE SingleOps(videos, "video"))
         \o SingleOps(audios, "audio")

DeliveryOps(downloaded) ==
    LET images == SelectSeq(downloaded, LAMBDA p : is_image_file(p))
        others == SelectSeq(downloaded, LAMBDA p : ~is_image_file(p))
        videos == SelectSeq(others, LAMBDA p : guess_send_method(p) = "video")
        audios == SelectSeq(others, LAMBDA p : guess_send_method(p) = "audio")
        non_media_docs ==
            SelectSeq(others, LAMBDA p : guess_send_method(p) \notin {"video", "audio"})
    IN GroupOps(images, "photo")
         \o (IF Len(videos) > 1 THEN GroupOps(videos, "video")
             ELSE SingleOps(videos, "video"))
         \o SingleOps(audios, "audio")
         \o SingleOps(non_media_docs, "document")

\* end-of-job cleanup loop of process_download_and_send
RECURSIVE Cleanup(_, _)
Cleanup(d, downloaded) ==
    IF downloaded = <<>> THEN d
    ELSE LET p == Head(downloaded) IN
         Cleanup(IF InGdl(p) THEN safe_remove(d, Parent(p)) ELSE safe_remove(d, p),
                 Tail(downloaded))

\* ----------------------------------------------------------------- state
VARIABLES
    tasks,         \* handler invocations: locals and the await each is suspended at
    chat_locks,    \* chat_locks: chat id -> locked?, created lazily by get_lock
    pending_jobs,  \* pending_jobs: token -> PendingJob
    now,           \* time.time()
    disk,          \* the paths that exist under DOWNLOAD_DIR
    nextToken,     \* tokens drawn so far (uuid4().hex[:12] is taken to be fresh)
    nextJob,       \* executor runs so far; the fresh uuid4().hex ids a run draws
                   \* (<job_id>.* of the primary tool, gdl_<job_id> of the
                   \* secondary one) are both written as the number of the run
    resolved,      \* history: resolutions (choice or cancel) accepted per token
    started,       \* history: downloads started per token
    arrivals       \* history: updates dispatched to the two handlers so far

vars == <<tasks, chat_locks, pending_jobs, now, disk, nextToken, nextJob, resolved, started, arrivals>>

IdleTask ==
    [kind |-> "none", pc |-> "idle", chat |-> 0, user |-> 0, url |-> "", choice |-> "",
     token |-> 0, mode |-> "", job |-> 0, gjob |-> 0, files |-> <<>>, idx |-> 0,
     exc |-> "none", reply |-> "", att |-> 0]

\* a handler invocation that has returned (or raised) leaves no state behind
Returned == IdleTask

\* a handler invocation whose exception went up to the dispatcher
Propagated == [IdleTask EXCEPT !.pc = "raised"]

PendingJob(chat, user, url, t0) ==
    [chat_id |-> chat, user_id |-> user, url |-> url,
     created_at |-> t0, expires_at |-> t0 + QUALITY_MENU_TTL_SEC]

Init ==
    /\ tasks = [t \in Tasks |-> IdleTask]
    /\ chat_locks = << >>
    /\ pending_jobs = << >>
    /\ now = 0
    /\ disk = {}
    /\ nextToken = 1
    /\ nextJob = 1
    /\ resolved = [k \in Tokens |-> 0]
    /\ started = [k \in Tokens |-> 0]
    /\ arrivals = 0

\* ----------------------------------------------------------------- locks
\* get_lock(chat_id): the chat's lock, created unlocked on first use
get_lock(locks, c) ==
    IF c \in DOMAIN locks THEN locks ELSE [k \in DOMAIN locks \cup {c} |-> IF k = c THEN FALSE ELSE locks[k]]

\* a lock.locked() that never reports the lock as taken
NeverLocked(locks, c) == FALSE

\* one lock for every conversation: locked when any conversation's lock is
AnyLocked(locks, c) == \E d \in DOMAIN locks : locks[d]

\* lock.locked()
Locked(locks, c) == c \in DOMAIN locks /\ locks[c]

\* an acquire() that leaves the lock free
AcquireNothing(locks, c) == locks

\* leaving the `except` block without releasing the lock
KeepLocked(locks, c) == locks

\* `async with lock` entered on an unlocked lock: acquire() takes it at once
LockAcquire(locks, c) == [locks EXCEPT ![c] = TRUE]

\* a handler that returns from the menu with the lock still taken
HoldLock(locks, c) == locks

\* leaving `async with lock`, by return or by an exception: release()
LockRelease(locks, c) == [locks EXCEPT ![c] = FALSE]

\* ------------------------------------------------------------- registry
\* a pop that leaves the entry in the registry
KeepEntry(jobs, token) == jobs

\* a pop that empties the registry
DropAll(jobs, token) == << >>

\* a purge that spares an entry at the very instant of its expires_at
PurgeStrictlyPast(jobs, time) ==
    LET expired == {k \in DOMAIN jobs : jobs[k].expires_at < time}
    IN [k \in DOMAIN jobs \ expired |-> jobs[k]]

\* a purge that drops every entry, expired or not
PurgeAll(jobs, time) == << >>

\* an ownership test that lets every user through
AnyUser(u, job) == TRUE

\* a pop put off until the lock has been taken
PopLater(jobs, token) == jobs

\* pending_jobs.pop(token, None)
Pop(jobs, token) == [k \in DOMAIN jobs \ {token} |-> jobs[k]]

\* purge_expired_jobs()
purge_expired_jobs(jobs, time) ==
    LET expired == {k \in DOMAIN jobs : jobs[k].expires_at <= time}
    IN [k \in DOMAIN jobs \ expired |-> jobs[k]]

\* call.from_user.id != job.user_id, negated
IsOwner(u, job) == u = job.user_id

\* pending_jobs[token] = PendingJob(...)
Register(jobs, token, job) ==
    [k \in DOMAIN jobs \cup {token} |-> IF k = token THEN job ELSE jobs[k]]

\* ------------------------------------------------------- external results
\* Names of the files a primary-tool (yt-dlp) download may leave for its job,
\* sorted by name as the executor sorts them.
YtLists == {<< >>, <<"w.mp4">>, <<"a.jpg", "v.mp4">>}

\* Names of the media files a secondary-tool (gallery-dl) run may leave.
GalleryLists == {<< >>, <<"a.jpg">>}

YtPaths(j, names) == [k \in 1..Len(names) |-> <<"yt", j, names[k]>>]

GalleryPaths(g, names, nested) ==
    [k \in 1..Len(names) |->
        IF nested THEN <<"gdl", g, "sub", names[k]>> ELSE <<"gdl", g, names[k]>>]

Range(s) == {s[k] : k \in 1..Len(s)}

\* The exception kinds the handlers tell apart: is_timeout_error(e) or not.
ExcKinds == {"err", "timeout"}

Choices == {"best", "mp3", "720p", "cancel"}

\* call.data of a callback whose data starts with "q|", split on "|"
CallbackData == {<<"q", "x">>} \cup {<<"q", ch, k>> : ch \in Choices, k \in Tokens}

\* a fallback that applies to every request
AlwaysFallback(url, choice) == TRUE

\* the gallery fallback of run_yt_dlp_download applies to this request
Fallback(url, choice) ==
    choice # "mp3" /\ (is_instagram_post(url) \/ is_pinterest(url))

\* ------------------------------------------------------------- pipeline
Free(t) == tasks[t].pc \in {"idle", "raised"}

\* an incoming update is handled in the first free task slot
FirstFree(t) == Free(t) /\ \A x \in Tasks : Free(x) => t <= x

Set(t, r) == tasks' = [tasks EXCEPT ![t] = r]

\* an exception reaches the handler's `except Exception as e`; of the locals
\* only what the handler and the history still refer to is kept
Raised(r, e) ==
    [IdleTask EXCEPT !.kind = r.kind, !.pc = "report", !.chat = r.chat, !.exc = e,
                     !.job = r.job, !.gjob = r.gjob, !.files = r.files, !.att = r.att]

\* entry of process_download_and_send, up to `await safe_edit_text(status, ...)`
EnterPipeline(r, mode, choice) ==
    [r EXCEPT !.pc = "edit_progress", !.mode = mode, !.choice = choice,
              !.user = 0, !.token = 0]

\* process_download_and_send between the executor's return and the first send:
\* the upload-ceiling check, then the delivery plan
AfterDownload(r, downloaded) ==
    LET r1 == [r EXCEPT !.files = downloaded, !.url = "", !.mode = "", !.choice = ""] IN
    IF \E p \in Range(downloaded) : SizeMb(p[Len(p)]) > TG_MAX_UPLOAD_MB
    THEN Raised(r1, "err")
    ELSE IF DeliveryOps(downloaded) = << >>
    THEN [r1 EXCEPT !.pc = "final_edit"]
    ELSE [r1 EXCEPT !.pc = "send", !.idx = 1]

\* the next await after the send call r.idx has returned
Advance(r) ==
    IF r.idx = Len(DeliveryOps(r.files))
    THEN [r EXCEPT !.pc = "final_edit", !.idx = 0]
    ELSE [r EXCEPT !.pc = "send", !.idx = r.idx + 1]

\* ---------------------------------------------------------- handle_text
\* handle_text up to its first await: URL_RE.search, get_lock, lock.locked(),
\* entering `async with lock`
HandleText(t, c, text) ==
    /\ FirstFree(t)
    /\ arrivals < MaxArrivals
    /\ arrivals' = arrivals + 1
    /\ UNCHANGED <<pending_jobs, now, disk, nextToken, nextJob, resolved, started>>
    /\ IF ~HasUrl(text)
       THEN /\ Set(t, Returned)
            /\ UNCHANGED chat_locks
       ELSE LET lock == get_lock(chat_locks, c)
                r == [IdleTask EXCEPT !.kind = "text", !.chat = c, !.url = text]
            IN IF Locked(lock, c)
               THEN /\ Set(t, [r EXCEPT !.pc = "busy_reply", !.reply = "busy"])
                    /\ chat_locks' = lock
               ELSE /\ Set(t, [r EXCEPT !.pc = "reply_status"])
                    /\ chat_locks' = LockAcquire(lock, c)

\* `await message.reply("busy")` returns; the handler returns
TextBusyReply(t) ==
    /\ tasks[t].pc = "busy_reply"
    /\ Set(t, Returned)
    /\ UNCHANGED <<chat_locks, pending_jobs, now, disk, nextToken, nextJob, resolved, started, arrivals>>

\* precheck_plan up to its first await (none for the platforms it does not probe)
Precheck(r) ==
    IF is_instagram_post(r.url) THEN EnterPipeline(r, "photo", "best")
    ELSE IF is_pinterest(r.url) THEN EnterPipeline(r, "gallery", "best")
    ELSE IF is_tiktok(r.url) THEN EnterPipeline(r, "video", "best")
    ELSE [r EXCEPT !.pc = "probe"]

\* `status = await message.reply(...)` inside `async with lock`, outside the try
TextReplyStatus(t) ==
    LET r == tasks[t] IN
    /\ r.pc = "reply_status"
    /\ UNCHANGED <<pending_jobs, now, disk, nextToken, nextJob, resolved, started, arrivals>>
    /\ \/ /\ Set(t, Precheck(r))
          /\ UNCHANGED chat_locks
       \/ /\ Set(t, Propagated)
          /\ chat_locks' = LockRelease(chat_locks, r.chat)

\* What the metadata probe can answer: its exit code (with the kind of the
\* error its diagnostic makes) and, on exit 0, the document in its output:
\* "none" (no JSON object), "empty" ({}), "oversize" (the size it estimates
\* exceeds MAX_FILE_MB) or "ok".
ProbeOutcomes ==
    {[rc |-> 1, exc |-> e, doc |-> "none"] : e \in ExcKinds}
    \cup {[rc |-> 0, exc |-> "err", doc |-> d] : d \in {"none", "empty", "oversize", "ok"}}

\* a precheck_plan that goes on to the download where it should raise
ProbeIgnored(r, e) == EnterPipeline(r, "video", "best")

\* precheck_plan raises: `raise RuntimeError(...)` on rc != 0 and on an
\* estimate over the ceiling, the ValueError of load_first_json
ProbeFailed(r, e) == Raised(r, e)

\* the metadata probe `await run_cmd(args)` of precheck_plan returns `out`,
\* then handle_text up to its next await; u is message.from_user.id
ProbeResult(t, out, u) ==
    LET r == tasks[t] IN
    /\ r.pc = "probe"
    /\ UNCHANGED <<chat_locks, now, disk, nextJob, resolved, started, arrivals>>
    /\ IF out.rc # 0 \/ out.doc \in {"none", "oversize"}
       THEN /\ Set(t, ProbeFailed(r, out.exc))
            /\ UNCHANGED <<pending_jobs, nextToken>>
       ELSE IF out.doc = "ok" /\ supports_quality_menu(r.url)
       THEN /\ nextToken <= MaxTokens
            /\ pending_jobs' =
                 Register(pending_jobs, nextToken, PendingJob(r.chat, u, r.url, now))
            /\ nextToken' = nextToken + 1
            /\ Set(t, [r EXCEPT !.pc = "menu_edit", !.url = ""])
       ELSE \* plan.info is falsy ({}), or the platform has no quality menu
            /\ Set(t, EnterPipeline(r, "video", "best"))
            /\ UNCHANGED <<pending_jobs, nextToken>>

ProbeReturn(t) == \E out \in ProbeOutcomes, u \in Users : ProbeResult(t, out, u)

\* `await safe_edit_text(status, menu, reply_markup=kb)`; on success `return`
MenuEdit(t) ==
    LET r == tasks[t] IN
    /\ r.pc = "menu_edit"
    /\ UNCHANGED <<pending_jobs, now, disk, nextToken, nextJob, resolved, started, arrivals>>
    /\ \/ /\ Set(t, Returned)
          /\ chat_locks' = LockRelease(chat_locks, r.chat)
       \/ \E e \in ExcKinds :
            /\ Set(t, Raised(r, e))
            /\ UNCHANGED chat_locks

\* -------------------------------------------- process_download_and_send
\* run_gallery_dl_download up to its `await run_cmd(args)`: a fresh job
\* directory gdl_<job_id> is created
GalleryStart(r, g) == [r EXCEPT !.pc = "gallery", !.gjob = g]

\* job_dir.mkdir and prepare_writable_cookies(job_dir); the model runs the
\* configuration in which a cookies source exists
GalleryDirCreated(g) == {<<"gdl", g>>, <<"gdl", g, "instagram.cookies.txt">>}

\* the first `await safe_edit_text(status, ...)` of process_download_and_send
\* returns; the executor runs up to its first await
EditProgress(t) ==
    LET r == tasks[t] IN
    /\ r.pc = "edit_progress"
    /\ UNCHANGED <<chat_locks, pending_jobs, now, nextToken, resolved, started, arrivals>>
    /\ \/ /\ nextJob <= MaxJobs
          /\ nextJob' = nextJob + 1
          /\ IF r.mode = "gallery"
             THEN /\ Set(t, GalleryStart(r, nextJob))
                  /\ disk' = disk \cup GalleryDirCreated(nextJob)
             ELSE /\ Set(t, [r EXCEPT !.job = nextJob,
                                      !.pc = IF is_tiktok(r.url) THEN "version" ELSE "ytdlp"])
                  /\ UNCHANGED disk
       \/ \E e \in ExcKinds :
            /\ Set(t, Raised(r, e))
            /\ UNCHANGED <<disk, nextJob>>

\* `await run_cmd(["yt-dlp", "--version"])` for TikTok; its failure is only logged
Version(t) ==
    /\ tasks[t].pc = "version"
    /\ Set(t, [tasks[t] EXCEPT !.pc = "ytdlp"])
    /\ UNCHANGED <<chat_locks, pending_jobs, now, disk, nextToken, nextJob, resolved, started, arrivals>>

\* What the primary tool can answer: its exit code; on a non-zero one
\* whether the diagnostic has "No video formats found", the kind of the error
\* the diagnostic makes and whether a partial file is left behind; on exit 0
\* the names of the files it wrote, out of `lists`.
YtOutcomes(lists) ==
    {[rc |-> 1, nofmt |-> TRUE, exc |-> "err", partial |-> FALSE, names |-> << >>]}
    \cup {[rc |-> 1, nofmt |-> FALSE, exc |-> e, partial |-> p, names |-> << >>] :
            e \in ExcKinds, p \in BOOLEAN}
    \cup {[rc |-> 0, nofmt |-> FALSE, exc |-> "err", partial |-> FALSE, names |-> n] :
            n \in lists}

\* the download `await run_cmd(args)` of run_yt_dlp_download returns `out`
YtDlpResult(t, out) ==
    LET r == tasks[t] IN
    /\ r.pc = "ytdlp"
    /\ UNCHANGED <<chat_locks, pending_jobs, now, nextToken, nextJob, resolved, started,
                   arrivals>>
    /\ IF out.rc # 0 /\ out.nofmt /\ Fallback(r.url, r.choice)
       THEN \* return await run_gallery_dl_download(url, out_dir, logger)
            /\ Set(t, GalleryStart(r, r.job))
            /\ disk' = disk \cup GalleryDirCreated(r.job)
       ELSE IF out.rc # 0
       THEN \* raise RuntimeError("yt-dlp download error ...")
            /\ Set(t, Raised(r, out.exc))
            /\ disk' = IF out.partial THEN disk \cup {<<"yt", r.job, "x.part">>} ELSE disk
       ELSE \* the files named <job_id>.* are collected
            /\ disk' = disk \cup Range(YtPaths(r.job, out.names))
            /\ Set(t, IF out.names = << >> THEN Raised(r, "err")
                      ELSE AfterDownload(r, YtPaths(r.job, out.names)))

YtDlpReturn(t) == \E out \in YtOutcomes(YtLists) : YtDlpResult(t, out)

\* What the secondary tool can answer: its exit code (with the kind of the
\* error its diagnostic makes); on exit 0 the names of the media files it
\* wrote, out of `lists`, and whether it put them in a directory of its own
\* under the job directory.
GalleryOutcomes(lists) ==
    {[rc |-> 1, exc |-> e, names |-> << >>, nested |-> FALSE] : e \in ExcKinds}
    \cup {[rc |-> 0, exc |-> "err", names |-> n, nested |-> b] :
            n \in lists, b \in BOOLEAN}

\* the `await run_cmd(args)` of run_gallery_dl_download returns `out`
GalleryResult(t, out) ==
    LET r == tasks[t]
        paths == GalleryPaths(r.gjob, out.names, out.nested)
    IN
    /\ r.pc = "gallery"
    /\ UNCHANGED <<chat_locks, pending_jobs, now, nextToken, nextJob, resolved, started,
                   arrivals>>
    /\ IF out.rc # 0
       THEN \* raise RuntimeError("gallery-dl error ...")
            /\ Set(t, Raised(r, out.exc))
            /\ UNCHANGED disk
       ELSE /\ disk' = disk \cup Range(paths)
                         \cup (IF out.nested /\ out.names # << >>
                               THEN {<<"gdl", r.gjob, "sub">>} ELSE {})
            /\ Set(t, IF out.names = << >> THEN Raised(r, "err")
                      ELSE AfterDownload(r, paths))

GalleryReturn(t) == \E out \in GalleryOutcomes(GalleryLists) : GalleryResult(t, out)

\* What a send call can answer: the status edit before it raises
\* ("edit_raises"), the send returns ("sent"), the send raises with a message
\* that has "Unsupported URL protocol" or "invalid file HTTP URL"
\* ("path_rejected"), or with another one ("send_raises").
SendOutcomes ==
    {[what |-> w, exc |-> e] : w \in {"edit_raises", "send_raises"}, e \in ExcKinds}
    \cup {[what |-> w, exc |-> "err"] : w \in {"sent", "path_rejected"}}

\* the `except` of send_*_safe on a rejected local-path reference: the same
\* item is sent again as FSInputFile
\* a send_*_safe that re-raises the rejected-path failure
RejectRaises(r) == Raised(r, "err")

AfterReject(r) == [r EXCEPT !.pc = "upload"]

\* send call r.idx of the delivery, with the status edit that precedes it,
\* answers `out`
SendResult(t, out) ==
    LET r == tasks[t]
        op == DeliveryOps(r.files)[r.idx]
        r1 == [r EXCEPT !.att = r.idx]
    IN
    /\ r.pc = "send"
    /\ UNCHANGED <<chat_locks, pending_jobs, now, disk, nextToken, nextJob, resolved, started, arrivals>>
    /\ CASE out.what = "edit_raises" ->
              \* the send is not reached
              op.edit /\ Set(t, Raised(r, out.exc))
         [] out.what = "sent" -> Set(t, Advance(r1))
         [] out.what = "send_raises" -> Set(t, Raised(r1, out.exc))
         [] out.what = "path_rejected" ->
              IF op.op \in {"video", "audio", "document"}
              THEN Set(t, AfterReject(r1))
              ELSE \* bot.send_media_group has no retry
                   Set(t, Raised(r1, out.exc))

Send(t) == \E out \in SendOutcomes : SendResult(t, out)

\* the direct-upload retry of send_*_safe returns or raises
Upload(t) ==
    LET r == tasks[t] IN
    /\ r.pc = "upload"
    /\ UNCHANGED <<chat_locks, pending_jobs, now, disk, nextToken, nextJob, resolved, started, arrivals>>
    /\ \/ Set(t, Advance(r))
       \/ \E e \in ExcKinds : Set(t, Raised(r, e))

\* `await safe_edit_text(status, "done")`; when it returns: the sleep and
\* status.delete() of DELETE_STATUS_ON_SUCCESS (failures ignored), the cleanup
\* loop, and the return of process_download_and_send and of the handler
FinalEdit(t) ==
    LET r == tasks[t] IN
    /\ r.pc = "final_edit"
    /\ UNCHANGED <<pending_jobs, now, nextToken, nextJob, resolved, started, arrivals>>
    /\ \/ /\ disk' = Cleanup(disk, r.files)
          /\ Set(t, Returned)
          /\ chat_locks' = LockRelease(chat_locks, r.chat)
       \/ \E e \in ExcKinds :
            /\ Set(t, Raised(r, e))
            /\ UNCHANGED <<disk, chat_locks>>

\* the lock once the `except` block of the handler has been left, by its end
\* or by an exception of its own: `async with` releases it either way
AfterReport(locks, c) == LockRelease(locks, c)

\* the `await safe_edit_text(status, ...)` of the `except Exception` block
\* (both the is_timeout_error branch and the other one end in it):
\* handle_text lets its failure propagate, on_quality_choice ignores it
Report(t) ==
    LET r == tasks[t] IN
    /\ r.pc = "report"
    /\ chat_locks' = AfterReport(chat_locks, r.chat)
    /\ UNCHANGED <<pending_jobs, now, disk, nextToken, nextJob, resolved, started, arrivals>>
    /\ \/ Set(t, Returned)
       \/ Set(t, IF r.kind = "text" THEN Propagated ELSE Returned)

\* ------------------------------------------------------ on_quality_choice
\* on_quality_choice up to its first await: purge_expired_jobs, the split of
\* call.data, the registry lookup, the ownership test, the pop
OnQualityChoice(t, u, data) ==
    LET jobs == purge_expired_jobs(pending_jobs, now)
        choice == data[2]
        token == data[3]
        r == [IdleTask EXCEPT !.kind = "cb", !.user = u]
    IN
    /\ FirstFree(t)
    /\ arrivals < MaxArrivals
    /\ arrivals' = arrivals + 1
    /\ UNCHANGED <<chat_locks, now, disk, nextToken, nextJob, started>>
    /\ IF Len(data) # 3
       THEN /\ Set(t, [r EXCEPT !.pc = "answer", !.reply = "bad"])
            /\ pending_jobs' = jobs
            /\ UNCHANGED resolved
       ELSE IF token \notin DOMAIN jobs
       THEN /\ Set(t, [r EXCEPT !.pc = "answer", !.reply = "stale",
                                !.token = token, !.choice = choice])
            /\ pending_jobs' = jobs
            /\ UNCHANGED resolved
       ELSE IF ~IsOwner(u, jobs[token])
       THEN /\ Set(t, [r EXCEPT !.pc = "answer", !.reply = "foreign",
                                !.token = token, !.choice = choice])
            /\ pending_jobs' = jobs
            /\ UNCHANGED resolved
       ELSE IF choice = "cancel"
       THEN /\ Set(t, [r EXCEPT !.pc = "answer_cancel", !.token = token, !.choice = choice,
                                !.chat = jobs[token].chat_id])
            /\ pending_jobs' = Pop(jobs, token)
            /\ resolved' = [resolved EXCEPT ![token] = Min(@ + 1, 2)]
       ELSE /\ Set(t, [r EXCEPT !.pc = "answer_progress", !.token = token, !.choice = choice,
                                !.chat = jobs[token].chat_id, !.url = jobs[token].url])
            /\ pending_jobs' = Pop(jobs, token)
            /\ resolved' = [resolved EXCEPT ![token] = Min(@ + 1, 2)]

\* `await call.answer(...)` of a rejected request returns; the handler returns
Answer(t) ==
    /\ tasks[t].pc = "answer"
    /\ Set(t, Returned)
    /\ UNCHANGED <<chat_locks, pending_jobs, now, disk, nextToken, nextJob, resolved, started, arrivals>>

\* `await call.answer("cancelled")` and `await safe_edit_text(call.message,
\* "cancelled")` (its failure ignored) return; the handler returns
AnswerCancel(t) ==
    /\ tasks[t].pc = "answer_cancel"
    /\ Set(t, Returned)
    /\ UNCHANGED <<chat_locks, pending_jobs, now, disk, nextToken, nextJob, resolved, started, arrivals>>

\* `await call.answer("in progress")` returns: get_lock, lock.locked(), and,
\* when the lock is free, `async with lock` up to the pipeline's first await
AnswerProgress(t) ==
    LET r == tasks[t]
        lock == get_lock(chat_locks, r.chat)
    IN
    /\ r.pc = "answer_progress"
    /\ UNCHANGED <<pending_jobs, now, disk, nextToken, nextJob, resolved, arrivals>>
    /\ IF Locked(lock, r.chat)
       THEN /\ Set(t, [r EXCEPT !.pc = "answer", !.reply = "busy"])
            /\ chat_locks' = lock
            /\ UNCHANGED started
       ELSE \E hasMessage \in BOOLEAN :
            IF hasMessage
            THEN /\ Set(t, EnterPipeline(r, "video", r.choice))
                 /\ chat_locks' = LockAcquire(lock, r.chat)
                 /\ started' = [started EXCEPT ![r.token] = Min(@ + 1, 2)]
            ELSE \* `if not status_msg: return`
                 /\ Set(t, Returned)
                 /\ chat_locks' = LockRelease(LockAcquire(lock, r.chat), r.chat)
                 /\ UNCHANGED started

\* ------------------------------------------------------------------ time
\* time.time() is read only against the expires_at of pending entries and to
\* stamp new ones, so the clock is advanced only while an entry is pending
Tick ==
    /\ now < MaxTime
    /\ DOMAIN pending_jobs # {}
    /\ now' = now + 1
    /\ UNCHANGED <<tasks, chat_locks, pending_jobs, disk, nextToken, nextJob, resolved, started, arrivals>>

\* the continuation of task t from the await it is suspended at
Step(t) ==
    \/ TextBusyReply(t)
    \/ TextReplyStatus(t)
    \/ ProbeReturn(t)
    \/ MenuEdit(t)
    \/ EditProgress(t)
    \/ Version(t)
    \/ YtDlpReturn(t)
    \/ GalleryReturn(t)
    \/ Send(t)
    \/ Upload(t)
    \/ FinalEdit(t)
    \/ Report(t)
    \/ Answer(t)
    \/ AnswerCancel(t)
    \/ AnswerProgress(t)

Next ==
    \/ \E t \in Tasks, c \in Chats, text \in Texts : HandleText(t, c, text)
    \/ \E t \in Tasks, u \in Users, data \in CallbackData : OnQualityChoice(t, u, data)
    \/ \E t \in Tasks : Step(t)
    \/ Tick

Spec == Init /\ [][Next]_vars

\* ------------------------------------------- one pipeline execution alone
\* The file names a download of mixed media may leave: two photos, a video,
\* a video over the upload ceiling, two audio files, two other files, and a
\* video whose title begins with "gdl_".
MixNames ==
    {"a.jpg", "b.jpg", "v.mp4", "w.mp4", "s.mp3", "t.mp3", "d.pdf", "e.zip", "gdl_v.mp4"}

\* the lists of up to MaxMixed distinct names out of MixNames, in any order
\* (the autonumber of the output template decides the order of the files)
MixedLists ==
    UNION {{q \in [1..n -> MixNames] : \A i, j \in 1..n : i # j => q[i] # q[j]} :
            n \in 0..MaxMixed}

\* a run of n photos followed by a run of m videos
RunLists ==
    {SubSeq(PhotoSeq, 1, n) \o SubSeq(VideoSeq, 1, m) : n \in 0..MaxRun, m \in 0..MaxRun}

DeliveryLists == MixedLists \cup RunLists

\* the quality_choice values the handlers pass: "best", or the choice of a
\* callback that is no cancel
QualityChoices == Choices \ {"cancel"}

\* process_download_and_send has just been entered by a handler that holds
\* the lock of conversation 1, with any URL, plan.mode and quality_choice
DeliveryInit ==
    /\ \E kind \in {"text", "cb"}, url \in Urls, mode \in {"video", "photo", "gallery"},
          choice \in QualityChoices :
         tasks = [t \in Tasks |->
                    IF t = 1
                    THEN [IdleTask EXCEPT !.kind = kind, !.pc = "edit_progress", !.chat = 1,
                                          !.url = url, !.mode = mode, !.choice = choice]
                    ELSE IdleTask]
    /\ chat_locks = [c \in {1} |-> TRUE]
    /\ pending_jobs = << >>
    /\ now = 0
    /\ disk = {}
    /\ nextToken = 1
    /\ nextJob = 1
    /\ resolved = [k \in Tokens |-> 0]
    /\ started = [k \in Tokens |-> 0]
    /\ arrivals = 1

\* the primary tool answers with any of the file lists of DeliveryLists
DeliveryYtDlpReturn(t) == \E out \in YtOutcomes(DeliveryLists) : YtDlpResult(t, out)

DeliveryNext ==
    \E t \in Tasks :
        \/ EditProgress(t)
        \/ Version(t)
        \/ DeliveryYtDlpReturn(t)
        \/ GalleryReturn(t)
        \/ Send(t)
        \/ Upload(t)
        \/ FinalEdit(t)
        \/ Report(t)

DeliverySpec == DeliveryInit /\ [][DeliveryNext]_vars

\* the same steps with a budget of LiveArrivals updates
LiveNext ==
    \/ \E t \in Tasks, c \in Chats, text \in Texts :
         arrivals < LiveArrivals /\ HandleText(t, c, text)
    \/ \E t \in Tasks, u \in Users, data \in CallbackData :
         arrivals < LiveArrivals /\ OnQualityChoice(t, u, data)
    \/ \E t \in Tasks : Step(t)
    \/ Tick

\* every await of external I/O returns (normally or by raising): a suspended
\* handler is eventually resumed
FairSpec == Init /\ [][LiveNext]_vars /\ \A t \in Tasks : WF_vars(Step(t))

\* ============================================================ properties
\* the lock of conversation c is taken
Held(c) == c \in DOMAIN chat_locks /\ chat_locks[c]

\* the awaits of a pipeline execution: the status reply, the probe, the menu
\* edit, the download, the delivery and the failure report
PipelinePcs ==
    {"reply_status", "probe", "menu_edit", "edit_progress", "version", "ytdlp",
     "gallery", "send", "upload", "final_edit", "report"}

InFlight(t, c) == tasks[t].chat = c /\ tasks[t].pc \in PipelinePcs

\* task t ends in this step
Ends(t) == ~Free(t) /\ tasks'[t].pc \in {"idle", "raised"}

\* a handler suspended at the acknowledgement of a rejected request does
\* nothing more: when the acknowledgement returns the handler returns, and no
\* other part of the state changes
RejectionEnds ==
    \A t \in Tasks :
        (tasks[t].pc = "answer" /\ tasks'[t] # tasks[t])
        => /\ tasks'[t] = Returned
           /\ UNCHANGED <<chat_locks, pending_jobs, disk, nextToken, nextJob, resolved, started>>

\* C1: for every conversation at most one pipeline execution (probe, download
\* or delivery) is in flight at any time, whatever the interleaving of URL
\* messages and quality-choice callbacks; the conversation's lock is held
\* exactly while that execution is in flight.
C1_OnePipelinePerChat ==
    \A c \in Chats :
        /\ Cardinality({t \in Tasks : InFlight(t, c)}) <= 1
        /\ Held(c) <=> \E t \in Tasks : InFlight(t, c)

\* a second request of a conversation is being turned away while the first
\* one is in flight
C1_Witness ==
    \E c \in Chats, t1, t2 \in Tasks :
        /\ t1 # t2
        /\ InFlight(t1, c)
        /\ tasks[t1].pc \in {"ytdlp", "gallery", "send"}
        /\ tasks[t2].chat = c
        /\ tasks[t2].reply = "busy"

\* C2: a URL message that arrives while its conversation's lock is held is
\* rejected at once with the busy reply: the handler goes straight to that
\* reply, registers no pending token, draws no job id, starts no probe or
\* download, leaves every lock as it is, and returns after the reply without
\* ever running the request.
C2_BusyRejected ==
    [][/\ \A t \in Tasks, c \in Chats, text \in Urls :
            (Held(c) /\ HandleText(t, c, text))
            => /\ tasks'[t].pc = "busy_reply"
               /\ tasks'[t].reply = "busy"
               /\ UNCHANGED <<chat_locks, pending_jobs, disk, nextToken, nextJob,
                              resolved, started>>
       /\ \A t \in Tasks :
            (tasks[t].pc = "busy_reply" /\ tasks'[t] # tasks[t])
            => /\ tasks'[t] = Returned
               /\ UNCHANGED <<chat_locks, pending_jobs, disk, nextToken, nextJob,
                              resolved, started>>]_vars

\* a URL message sits at its busy reply while the lock of its conversation is
\* held by a download in progress
C2_Witness ==
    \E t, x \in Tasks :
        /\ tasks[t].kind = "text"
        /\ tasks[t].pc = "busy_reply"
        /\ Held(tasks[t].chat)
        /\ InFlight(x, tasks[t].chat)
        /\ tasks[x].pc = "ytdlp"

\* C3: provided every external call returns or raises (FairSpec), a held
\* conversation lock is eventually released, on every exit path of the
\* pipeline, the failure of the failure report included.
C3_LockReleased == \A c \in Chats : Held(c) ~> ~Held(c)

\* handle_text is about to report a timeout-shaped failure, holding the lock;
\* the report itself may raise
C3_Witness ==
    \E t \in Tasks :
        /\ tasks[t].kind = "text"
        /\ tasks[t].pc = "report"
        /\ tasks[t].exc = "timeout"
        /\ Held(tasks[t].chat)

\* the files process_download_and_send has attempted to send: the items of
\* its send calls 1..att
Attempted(r) ==
    UNION {Range(DeliveryOps(r.files)[k].items) : k \in 1..r.att}

\* the job directory gdl_<job_id> of a gallery file
JobDir(p) == <<"gdl", p[2]>>

\* C4, as the specification states it: when a job ends, every file a send was
\* attempted for, and the gallery job directory of such a file, is gone from
\* the disk, whether the send succeeded or raised.
C4_AttemptedFilesRemoved ==
    [][\A t \in Tasks :
         (tasks[t].pc \in {"final_edit", "report"} /\ Ends(t))
         => \A p \in Attempted(tasks[t]) :
              /\ p \notin disk'
              /\ InGdl(p) => JobDir(p) \notin disk']_vars

\* C5, as the specification states it: when a job fails before any send was
\* attempted, nothing the job wrote under the download directory is left when
\* the handler returns.
C5_FailedJobLeavesNothing ==
    [][\A t \in Tasks :
         (tasks[t].pc = "report" /\ tasks[t].att = 0 /\ Ends(t))
         => ~\E p \in disk' : p[2] = tasks[t].job \/ p[2] = tasks[t].gjob]_vars

\* the token a callback names is in the registry
Names(data) == Len(data) = 3 /\ data[3] \in DOMAIN pending_jobs

\* entry k of the registry has not reached its expires_at
Live(k) == k \in DOMAIN pending_jobs /\ pending_jobs[k].expires_at > now

\* entry k of the registry is untouched by the step
Kept(k) == k \in DOMAIN pending_jobs' /\ pending_jobs'[k] = pending_jobs[k]

\* C6: a resolution attempt on a pending token by a user other than its owner
\* is rejected whether or not the token has expired: the handler only
\* answers, no download is started, no lock is touched, and a token that has
\* not expired stays in the registry unchanged and unresolved, so that its
\* owner can still resolve it.
C6_NonOwnerRejected ==
    [][/\ \A t \in Tasks, u \in Users, data \in CallbackData :
            (/\ Names(data)
             /\ u # pending_jobs[data[3]].user_id
             /\ OnQualityChoice(t, u, data))
            => /\ tasks'[t].pc = "answer"
               /\ tasks'[t].reply = IF Live(data[3]) THEN "foreign" ELSE "stale"
               /\ Live(data[3]) => Kept(data[3])
               /\ UNCHANGED <<chat_locks, disk, nextJob, resolved, started>>
       /\ RejectionEnds]_vars

\* a non-owner has just been turned away and the token is still pending
C6_Witness ==
    \E t \in Tasks :
        /\ tasks[t].pc = "answer"
        /\ tasks[t].reply = "foreign"
        /\ tasks[t].token \in DOMAIN pending_jobs
        /\ tasks[t].user # pending_jobs[tasks[t].token].user_id

Rejected(u, data) ==
    /\ Len(data) = 3
    /\ \/ data[3] \notin DOMAIN pending_jobs
       \/ pending_jobs[data[3]].expires_at <= now
       \/ u # pending_jobs[data[3]].user_id

\* C8, as the specification states it: a rejected resolution request leaves
\* the registry and every lock exactly as they were and starts nothing.
C8_RejectionChangesNothing ==
    [][\A t \in Tasks, u \in Users, data \in CallbackData :
         (Rejected(u, data) /\ OnQualityChoice(t, u, data))
         => /\ tasks'[t].pc = "answer"
            /\ UNCHANGED <<pending_jobs, chat_locks, disk, nextJob, resolved, started>>]_vars

\* C8, as the code has it: a rejected resolution request removes from the
\* registry the entries whose expires_at has passed (the lazy purge) and
\* nothing else: every entry that has not expired and every lock is the same
\* after the request as before, nothing is added, and no external invocation
\* is started.
C8_RejectionOnlyPurges ==
    [][/\ \A t \in Tasks, u \in Users, data \in CallbackData :
            (Rejected(u, data) /\ OnQualityChoice(t, u, data))
            => /\ tasks'[t].pc = "answer"
               /\ DOMAIN pending_jobs' = {k \in DOMAIN pending_jobs : Live(k)}
               /\ \A k \in DOMAIN pending_jobs : Live(k) => Kept(k)
               /\ UNCHANGED <<chat_locks, disk, nextJob, nextToken, resolved, started>>
               /\ \A x \in Tasks \ {t} : tasks'[x] = tasks[x]
       /\ RejectionEnds]_vars

\* a non-owner is being turned away on token 2, and that request has purged
\* the expired token 1 (registered, never resolved, no longer in the registry)
C8_Witness ==
    \E t \in Tasks :
        /\ tasks[t].pc = "answer"
        /\ tasks[t].reply = "foreign"
        /\ tasks[t].token = 2
        /\ 2 \in DOMAIN pending_jobs
        /\ 1 \notin DOMAIN pending_jobs
        /\ resolved[1] = 0

\* C9: a pending token is resolved at most once.  An accepted choice or
\* cancel removes the entry, so at most one resolution is ever accepted per
\* token, at most one download is started for it, and every resolution
\* attempt that follows, whether later or delivered while the first is still
\* being handled, is answered as stale.
C9_ResolvedOnce ==
    /\ [](\A k \in Tokens :
            /\ resolved[k] <= 1
            /\ started[k] <= resolved[k]
            /\ resolved[k] = 1 => k \notin DOMAIN pending_jobs)
    /\ [][\A t \in Tasks, u \in Users, data \in CallbackData :
            (/\ Len(data) = 3
             /\ resolved[data[3]] >= 1
             /\ OnQualityChoice(t, u, data))
            => /\ tasks'[t].pc = "answer"
               /\ tasks'[t].reply = "stale"
               /\ UNCHANGED <<resolved, started, chat_locks>>]_vars

\* a double press: the first press of the owner is still being handled (its
\* answer has not returned) while the second is answered as stale
C9_Witness ==
    \E t1, t2 \in Tasks :
        /\ tasks[t1].pc = "answer_progress"
        /\ tasks[t2].pc = "answer"
        /\ tasks[t2].reply = "stale"
        /\ tasks[t2].token = tasks[t1].token
        /\ tasks[t2].user = tasks[t1].user
        /\ resolved[tasks[t1].token] = 1

\* the owner of a pending token that has not expired presses cancel
OwnerCancel(t, u, data) ==
    /\ Names(data)
    /\ data[2] = "cancel"
    /\ Live(data[3])
    /\ u = pending_jobs[data[3]].user_id
    /\ OnQualityChoice(t, u, data)

\* what a cancel leaves alone: no download is started, the locks are neither
\* looked up nor taken, the other handlers go on undisturbed; and the handler
\* then returns after its acknowledgement without doing anything else
CancelFrame(t) ==
    /\ tasks'[t].pc = "answer_cancel"
    /\ UNCHANGED <<chat_locks, disk, nextJob, nextToken, started>>
    /\ \A x \in Tasks \ {t} : tasks'[x] = tasks[x]

CancelEnds ==
    \A t \in Tasks :
        (tasks[t].pc = "answer_cancel" /\ tasks'[t] # tasks[t])
        => /\ tasks'[t] = Returned
           /\ UNCHANGED <<chat_locks, pending_jobs, disk, nextToken, nextJob, resolved, started>>

\* C10, as the specification states it: a cancel by the owner on a live token
\* removes exactly that token from the registry and ends the flow.
C10_CancelRemovesExactlyToken ==
    [][/\ \A t \in Tasks, u \in Users, data \in CallbackData :
            OwnerCancel(t, u, data)
            => /\ DOMAIN pending_jobs' = DOMAIN pending_jobs \ {data[3]}
               /\ \A k \in DOMAIN pending_jobs' : Kept(k)
               /\ CancelFrame(t)
       /\ CancelEnds]_vars

\* C10, as the code has it: a cancel by the owner on a live token removes
\* that token and, by the lazy purge, the entries that have already expired;
\* every other live entry stays.  It ends the flow: no download is started
\* for the token, no lock is looked up or taken whether or not a job of the
\* conversation is in flight, and a job in flight goes on undisturbed.
C10_CancelRemovesTokenAndExpired ==
    [][/\ \A t \in Tasks, u \in Users, data \in CallbackData :
            OwnerCancel(t, u, data)
            => /\ DOMAIN pending_jobs' =
                    {k \in DOMAIN pending_jobs : Live(k)} \ {data[3]}
               /\ \A k \in DOMAIN pending_jobs' : Kept(k)
               /\ CancelFrame(t)
       /\ CancelEnds]_vars

\* a cancel has been accepted while a job of the same conversation is in
\* flight and holds its lock; the token is gone and no download was started
\* for it
C10_Witness ==
    \E t, x \in Tasks :
        /\ tasks[t].pc = "answer_cancel"
        /\ resolved[tasks[t].token] = 1
        /\ started[tasks[t].token] = 0
        /\ tasks[t].token \notin DOMAIN pending_jobs
        /\ InFlight(x, tasks[t].chat)
        /\ Held(tasks[t].chat)

\* the URLs the gallery fallback is meant for: an Instagram single post, a
\* Pinterest URL
FallbackUrl(url) == url \in {UrlIgPost, UrlPin}

\* the non-zero exits of the primary tool
YtFailures == YtOutcomes({})

C12_OtherFailuresAreHard ==
    [][/\ \A t \in Tasks, out \in YtFailures :
            (/\ tasks[t].pc = "ytdlp"
             /\ ~(out.nofmt /\ FallbackUrl(tasks[t].url))
             /\ YtDlpResult(t, out))
            => /\ tasks'[t].pc = "report"
               /\ tasks'[t].gjob = 0
               /\ \A p \in disk' \ disk : ~InGdl(p)
       /\ \A t \in Tasks, out \in GalleryOutcomes({}) :
            (tasks[t].pc = "gallery" /\ GalleryResult(t, out))
            => /\ tasks'[t].pc = "report"
               /\ disk' = disk
       /\ \A t \in Tasks :
            /\ tasks[t].pc = "gallery"
               => tasks'[t].pc \in {"gallery", "report", "send", "final_edit"}
            /\ (tasks'[t].pc = "gallery" /\ tasks[t].pc # "gallery")
               => /\ tasks[t].pc \in {"edit_progress", "ytdlp"}
                  /\ tasks[t].gjob = 0]_vars

\* the secondary tool has failed in a fallback: the job is at its failure
\* report with both a primary and a secondary run behind it
C12_Witness ==
    \E t \in Tasks :
        /\ tasks[t].pc = "report"
        /\ tasks[t].job # 0
        /\ tasks[t].gjob # 0
        /\ tasks[t].files = << >>

\* C13: for an Instagram single post, a Pinterest URL and a TikTok URL
\* precheck_plan returns its plan at once, with no probe metadata: once the
\* status reply has returned the handler is at the entry of the pipeline, in
\* the platform's mode, no probe has been awaited and no quality menu is
\* offered; such a request is never at the probe.
C13_NoProbeForKnownPlatforms ==
    [][\A t \in Tasks :
         /\ (/\ tasks[t].pc = "reply_status"
             /\ tasks[t].url \in {UrlIgPost, UrlPin, UrlTikTok}
             /\ tasks'[t] # tasks[t]
             /\ tasks'[t].pc # "raised")
            => /\ tasks'[t].pc = "edit_progress"
               /\ tasks'[t].mode = CASE tasks[t].url = UrlIgPost -> "photo"
                                     [] tasks[t].url = UrlPin -> "gallery"
                                     [] tasks[t].url = UrlTikTok -> "video"
               /\ tasks'[t].choice = "best"
               /\ UNCHANGED <<pending_jobs, nextToken, nextJob, disk>>
         /\ tasks'[t].pc \in {"probe", "menu_edit"}
            => tasks'[t].kind = "text" /\ tasks[t].url \in {UrlYouTube, UrlOther, ""}]_vars

\* a TikTok request has its plan and stands at the entry of the pipeline
C13_Witness ==
    \E t \in Tasks :
        /\ tasks[t].kind = "text"
        /\ tasks[t].pc = "edit_progress"
        /\ tasks[t].url = UrlTikTok
        /\ tasks[t].mode = "video"

\* C14: when the metadata probe exits non-zero, or estimates a size over the
\* ceiling, the job fails before any payload transfer: the handler goes to
\* its failure report with no primary or secondary tool run started, no file
\* written and no pending token registered, and the report only ends the job.
C14_ProbeFailureStopsJob ==
    [][/\ \A t \in Tasks, out \in ProbeOutcomes, u \in Users :
            (/\ out.rc # 0 \/ out.doc = "oversize"
             /\ ProbeResult(t, out, u))
            => /\ tasks'[t].pc = "report"
               /\ tasks'[t].job = 0
               /\ tasks'[t].gjob = 0
               /\ UNCHANGED <<pending_jobs, nextToken, nextJob, disk>>
       /\ \A t \in Tasks :
            (tasks[t].pc = "report" /\ tasks'[t] # tasks[t])
            => /\ Ends(t)
               /\ UNCHANGED <<pending_jobs, nextToken, nextJob, disk>>]_vars

\* the first request has failed at its probe and is at the failure report:
\* no tool run, no token, no file
C14_Witness ==
    \E t \in Tasks :
        /\ tasks[t].kind = "text"
        /\ tasks[t].pc = "report"
        /\ tasks[t].exc = "timeout"
        /\ tasks[t].job = 0
        /\ tasks[t].gjob = 0
        /\ nextJob = 1
        /\ nextToken = 1
        /\ disk = {}

\* the first file of its kind in a retrieved list
FirstOfKind(files, p) ==
    \A k \in 1..Len(files) :
        files[k] = p
        => \A i \in 1..(k - 1) : guess_send_method(files[i]) # guess_send_method(p)

\* C15: in one delivery, for each media kind (photo, video, audio, document)
\* the caption is passed with the first item of that kind and with no other
\* item: whenever a send call is about to be made, an item of the call
\* carries the caption exactly when it is the first of its kind in the
\* retrieved list.
C15_CaptionOncePerKind ==
    \A t \in Tasks :
        tasks[t].pc = "send"
        => LET op == DeliveryOps(tasks[t].files)[tasks[t].idx] IN
           \A j \in 1..Len(op.items) :
               op.caps[j] <=> FirstOfKind(tasks[t].files, op.items[j])

\* a retrieved list holding the file over the upload ceiling
HasOversize(files) == \E k \in 1..Len(files) : files[k][Len(files[k])] = "w.mp4"

\* the returns of the primary tool that leave such a file
OversizeOutcomes ==
    {out \in YtOutcomes(DeliveryLists) : out.rc = 0 /\ "w.mp4" \in Range(out.names)}

\* C16: if any retrieved file exceeds the per-file upload ceiling the whole
\* batch fails: the executor's return leads to the failure report with no
\* send attempted, and a job holding such a file is never at a send, at an
\* upload retry or at the final edit.
C16_OversizeFailsBatch ==
    [][/\ \A t \in Tasks, out \in OversizeOutcomes :
            YtDlpResult(t, out)
            => /\ tasks'[t].pc = "report"
               /\ tasks'[t].att = 0
       /\ \A t \in Tasks :
            HasOversize(tasks'[t].files)
            => /\ tasks'[t].pc = "report"
               /\ tasks'[t].att = 0]_vars

\* a job that retrieved an oversize file next to files within the ceiling is
\* at its failure report and has sent none of them
C16_Witness ==
    \E t \in Tasks :
        /\ tasks[t].pc = "report"
        /\ HasOversize(tasks[t].files)
        /\ Len(tasks[t].files) = 3
        /\ tasks[t].att = 0

\* the bucket process_download_and_send puts a retrieved file into
Bucket(p) ==
    IF is_image_file(p) THEN "photo"
    ELSE IF guess_send_method(p) \in {"video", "audio"} THEN guess_send_method(p)
    ELSE "document"

Buckets == {"photo", "video", "audio", "document"}

\* the items of the send calls of one bucket, in the order they are sent
RECURSIVE SentAs(_, _)
SentAs(ops, b) ==
    IF ops = << >> THEN << >>
    ELSE (IF Head(ops).media = b THEN Head(ops).items ELSE << >>) \o SentAs(Tail(ops), b)

Delivering == {"send", "upload", "final_edit"}

\* C17: every retrieved file is in exactly one of the four buckets, each
\* bucket holds its files in the order of the retrieved list, and a delivery
\* in which no send fails makes every send call of the plan exactly once, in
\* order, so that every retrieved file is sent exactly once.
C17_PartitionSentOnce ==
    [][\A t \in Tasks :
         LET r == tasks'[t]
             ops == DeliveryOps(r.files)
         IN
         /\ r.pc \in Delivering
            => /\ \A b \in Buckets :
                    SentAs(ops, b) = SelectSeq(r.files, LAMBDA p : Bucket(p) = b)
               /\ \A k \in 1..Len(ops) : ops[k].media \in Buckets
               /\ r.pc = "final_edit" => r.att = Len(ops)
         /\ (tasks[t].pc \in Delivering /\ r.pc \in Delivering /\ r # tasks[t])
            => /\ r.files = tasks[t].files
               /\ \/ r.pc = "upload" /\ r.idx = tasks[t].idx /\ tasks[t].pc = "send"
                  \/ r.pc = "send" /\ r.idx = tasks[t].idx + 1 /\ r.att = tasks[t].idx
                  \/ /\ r.pc = "final_edit"
                     /\ tasks[t].idx = Len(ops)
                     /\ r.att = tasks[t].idx
         /\ (tasks[t].pc \notin Delivering /\ r.pc = "send")
            => r.idx = 1 /\ r.att = 0]_vars

\* a delivery of three files of three different buckets has made its three
\* send calls and stands at the final edit
C17_Witness ==
    \E t \in Tasks :
        /\ tasks[t].pc = "final_edit"
        /\ {Bucket(p) : p \in Range(tasks[t].files)} = {"photo", "audio", "document"}
        /\ tasks[t].att = 3

\* the media-group calls of one bucket
GroupCalls(ops, b) == SelectSeq(ops, LAMBDA o : o.op = "group" /\ o.media = b)

\* C18: for any number of photos, and any number above one of videos, the
\* media-group calls hold at most 10 items each, together hold all the items
\* in order with none dropped or repeated, and only the last call may hold
\* fewer than 10.
C18_BatchesOfTen ==
    \A t \in Tasks :
        tasks[t].pc \in Delivering
        => \A b \in {"photo", "video"} :
             LET all == SelectSeq(tasks[t].files, LAMBDA p : Bucket(p) = b)
                 calls == GroupCalls(DeliveryOps(tasks[t].files), b)
             IN
             (b = "photo" \/ Len(all) > 1)
             => /\ \A k \in 1..Len(calls) :
                      /\ Len(calls[k].items) \in 1..10
                      /\ k < Len(calls) => Len(calls[k].items) = 10
                /\ SentAs(calls, b) = all
                /\ Len(calls) = (Len(all) + 9) \div 10

\* twelve photos: the call of 10 has been made, the call of 2 is next
C18_Witness ==
    \E t \in Tasks :
        /\ tasks[t].pc = "send"
        /\ tasks[t].files = YtPaths(tasks[t].job, SubSeq(PhotoSeq, 1, 12))
        /\ tasks[t].idx = 2
        /\ Len(DeliveryOps(tasks[t].files)) = 2
        /\ Len(DeliveryOps(tasks[t].files)[1].items) = 10
        /\ Len(DeliveryOps(tasks[t].files)[2].items) = 2

SafeSends == {"video", "audio", "document"}

\* C19: when a send_*_safe call by local-path reference fails with a
\* rejected-path message the same item goes to the direct upload; the upload
\* is made once: its return goes on to the next call, its failure to the
\* failure report; any other send failure goes to the failure report.
C19_RetryOnceByUpload ==
    [][/\ \A t \in Tasks, out \in SendOutcomes :
            (/\ tasks[t].pc = "send"
             /\ DeliveryOps(tasks[t].files)[tasks[t].idx].op \in SafeSends
             /\ SendResult(t, out))
            => CASE out.what = "path_rejected" ->
                      /\ tasks'[t].pc = "upload"
                      /\ tasks'[t].idx = tasks[t].idx
                      /\ tasks'[t].files = tasks[t].files
                 [] out.what \in {"send_raises", "edit_raises"} ->
                      tasks'[t].pc = "report"
                 [] OTHER -> tasks'[t].pc \in {"send", "final_edit"}
       /\ \A t \in Tasks :
            (tasks[t].pc = "upload" /\ tasks'[t] # tasks[t])
            => \/ tasks'[t].pc = "report"
               \/ /\ tasks'[t].pc = "send"
                  /\ tasks'[t].idx = tasks[t].idx + 1
               \/ /\ tasks'[t].pc = "final_edit"
                  /\ tasks[t].idx = Len(DeliveryOps(tasks[t].files))
       /\ \A t \in Tasks :
            tasks'[t].pc = "upload"
            => /\ tasks[t].pc \in {"send", "upload"}
               /\ tasks[t].pc = "upload" => tasks'[t] = tasks[t]]_vars

\* a document whose local-path reference was rejected is at its upload retry
C19_Witness ==
    \E t \in Tasks :
        /\ tasks[t].pc = "upload"
        /\ DeliveryOps(tasks[t].files)[tasks[t].idx].op = "document"
        /\ tasks[t].att = tasks[t].idx

\* C20: after a gallery-mode job, direct or reached through the fallback, has
\* delivered its files, nothing of its gdl_<job> directory is left: neither
\* the directory, nor a nested directory, nor the cookie copy.
C20_GalleryDirGone ==
    [][\A t \in Tasks :
         (/\ tasks[t].pc = "final_edit"
          /\ tasks[t].gjob # 0
          /\ tasks'[t] = Returned)
         => \A p \in disk' : ~(p[1] = "gdl" /\ p[2] = tasks[t].gjob)]_vars

\* prepare_writable_cookies(work_dir): the path the cookie source is copied to
\* (a cookie source is configured)
prepare_writable_cookies(work_dir) == work_dir \o <<"instagram.cookies.txt">>

\* the awaits at which an external tool runs with `--cookies <copy>`
ToolPcs == {"probe", "ytdlp", "gallery"}

\* the cookie copy the tool a handler is waiting for was given:
\* precheck_plan and run_yt_dlp_download copy into the download directory,
\* run_gallery_dl_download into its job directory
CookieCopy(r) ==
    IF r.pc = "gallery" THEN prepare_writable_cookies(<<"gdl", r.gjob>>)
    ELSE prepare_writable_cookies(DOWNLOAD_DIR)

\* C21: every job works on its own writable copy of the cookie file: two
\* handlers of different conversations whose external tools (a probe, a
\* download) run at the same time never use the same cookie-copy path.
C21_OwnCookieCopy ==
    \A t, u \in Tasks :
        (/\ t # u
         /\ tasks[t].pc \in ToolPcs
         /\ tasks[u].pc \in ToolPcs
         /\ tasks[t].chat # tasks[u].chat)
        => CookieCopy(tasks[t]) # CookieCopy(tasks[u])

\* C22: pipelines of different conversations run independently: a URL
\* message for a conversation whose own lock is free is accepted at once,
\* takes that lock and leaves every other conversation's lock as it is,
\* whatever pipelines are in flight for other conversations; the same holds
\* for a quality choice once its acknowledgement has returned.
C22_ConversationsIndependent ==
    [][/\ \A t \in Tasks, c \in Chats, text \in Urls :
            (~Held(c) /\ HandleText(t, c, text))
            => /\ tasks'[t].pc = "reply_status"
               /\ tasks'[t].reply # "busy"
               /\ c \in DOMAIN chat_locks' /\ chat_locks'[c]
               /\ \A d \in Chats \ {c} :
                    (d \in DOMAIN chat_locks' /\ chat_locks'[d]) <=> Held(d)
       /\ \A t \in Tasks :
            (/\ tasks[t].pc = "answer_progress"
             /\ ~Held(tasks[t].chat)
             /\ tasks'[t] # tasks[t])
            => /\ tasks'[t].reply # "busy"
               /\ \A d \in Chats \ {tasks[t].chat} :
                    (d \in DOMAIN chat_locks' /\ chat_locks'[d]) <=> Held(d)]_vars

\* a download is running for one conversation while the request of another
\* conversation is at its probe, each holding its own lock
C22_Witness ==
    \E t1, t2 \in Tasks :
        /\ tasks[t1].chat # tasks[t2].chat
        /\ tasks[t1].pc = "ytdlp"
        /\ tasks[t2].pc = "probe"
        /\ Held(tasks[t1].chat)
        /\ Held(tasks[t2].chat)

\* the platforms precheck_plan does not probe
NoMenuUrls == {UrlIgPost, UrlPin, UrlTikTok}

\* C23: for an Instagram single post, a Pinterest URL and a TikTok URL no
\* quality menu is presented and no pending token is registered: handle_text
\* goes to the download with choice "best".  A pending token is registered
\* only by a probe that returned metadata for a URL of the quality-menu
\* allow-list, and the handler then presents the menu.
C23_MenuOnlyForAllowList ==
    [][/\ \A k \in DOMAIN pending_jobs' : pending_jobs'[k].url = UrlYouTube
       /\ \A t \in Tasks, out \in ProbeOutcomes, u \in Users :
            (ProbeResult(t, out, u) /\ pending_jobs' # pending_jobs)
            => /\ out.rc = 0
               /\ out.doc = "ok"
               /\ tasks[t].url = UrlYouTube
               /\ tasks'[t].pc = "menu_edit"
       /\ (DOMAIN pending_jobs' \ DOMAIN pending_jobs # {})
            => \E t \in Tasks : tasks[t].pc = "probe" /\ tasks'[t].pc = "menu_edit"
       /\ \A t \in Tasks :
            (tasks[t].kind = "text" /\ tasks[t].url \in NoMenuUrls)
            => /\ tasks'[t].pc \notin {"probe", "menu_edit"}
               /\ tasks'[t].pc = "edit_progress" => tasks'[t].choice = "best"
               /\ tasks'[t] # tasks[t] => UNCHANGED <<pending_jobs, nextToken>>]_vars

\* a menu is being presented for a YouTube URL of one conversation, its token
\* registered, while an Instagram post of another conversation is at the
\* entry of the download with choice "best" and no token
C23_Witness ==
    \E t1, t2 \in Tasks :
        /\ tasks[t1].pc = "menu_edit"
        /\ \E k \in DOMAIN pending_jobs :
             /\ pending_jobs[k].chat_id = tasks[t1].chat
             /\ pending_jobs[k].url = UrlYouTube
        /\ tasks[t2].kind = "text"
        /\ tasks[t2].url = UrlIgPost
        /\ tasks[t2].pc = "edit_progress"
        /\ tasks[t2].choice = "best"
        /\ \A k \in DOMAIN pending_jobs : pending_jobs[k].chat_id # tasks[t2].chat

\* ------------------------------------------- argument list of the download
\* env defaults of the settings the argument list depends on
YTDLP_FORCE_IPV4 == TRUE

\* fmt_selector_for_height(height), for the heights of Choices
fmt_selector_for_height(height) ==
    CASE height = 720 -> "bv*[height<=720]+ba/b[height<=720]/best[height<=720]"
      [] OTHER -> "bv*[height<=H]+ba/b[height<=H]/best[height<=H]"

\* quality_choice.endswith("p") and quality_choice[:-1].isdigit()
IsHeightChoice(choice) == choice \in {"720p"}

\* int(quality_choice[:-1])
ChoiceHeight(choice) == CASE choice = "720p" -> 720 [] OTHER -> 0

\* a format "best" passed explicitly
ExplicitBest(choice) == "best"

\* `fmt` of the video branch; "" stands for None
Fmt(choice) ==
    IF choice = "best" THEN ""
    ELSE IF IsHeightChoice(choice) THEN fmt_selector_for_height(ChoiceHeight(choice))
    ELSE ""

UserAgent == "Mozilla/5.0 (Windows NT 10.0; Win64; x64) AppleWebKit/537.36 (KHTML, like Gecko) Chrome/120 Safari/537.36"

\* yt_dlp_common_args(url, cookies_path); cookies_path "" stands for None
yt_dlp_common_args(url, cookies_path) ==
    (IF is_instagram_post(url) THEN << >> ELSE <<"--no-playlist">>)
    \o <<"--restrict-filenames", "--no-progress">>
    \o (IF is_youtube(url)
        THEN <<"--remote-components", "ejs:github",
               "--extractor-args", "youtube:player_client=web_embedded,web,tv">>
        ELSE << >>)
    \o (IF is_tiktok(url)
        THEN <<"--impersonate", "chrome",
               "--add-header", "Referer:https://www.tiktok.com/",
               "--add-header", "Accept-Language:en-US,en;q=0.9",
               "--user-agent", UserAgent>>
             \o (IF YTDLP_FORCE_IPV4 THEN <<"-4">> ELSE << >>)
        ELSE << >>)
    \o (IF cookies_path # "" THEN <<"--cookies", cookies_path>> ELSE << >>)
    \o (IF is_instagram(url)
        THEN <<"--sleep-requests", "2", "--sleep-interval", "2",
               "--max-sleep-interval", "4", "--user-agent", UserAgent>>
        ELSE << >>)
    \o (IF is_instagram_post(url)
        THEN <<"--ignore-no-formats-error", "--no-abort-on-error">>
        ELSE << >>)

\* `args` of the `await run_cmd(args)` of run_yt_dlp_download
YtDlpArgs(url, mode, choice) ==
    LET common == yt_dlp_common_args(url, "instagram.cookies.txt")
        outtmpl == "%(autonumber)03d.%(title).200s.%(ext)s"
    IN
    IF choice = "mp3"
    THEN <<"yt-dlp">> \o common
         \o <<"-f", "bestaudio/best", "--max-filesize", "1900M", "-x",
              "--audio-format", "mp3", "--audio-quality", "0", "-o", outtmpl, url>>
    ELSE IF mode = "video"
    THEN <<"yt-dlp">> \o common
         \o (IF Fmt(choice) # "" THEN <<"-f", Fmt(choice)>> ELSE << >>)
         \o <<"--max-filesize", "1900M", "--merge-output-format", "mp4",
              "-o", outtmpl, url>>
    ELSE <<"yt-dlp">> \o common \o <<"--max-filesize", "1900M", "-o", outtmpl, url>>

\* C24: whenever the quality choice is "best", the argument list the primary
\* tool is started with holds no explicit format filter -f, in video mode
\* and in photo mode, for every URL.
C24_BestHasNoFormatFilter ==
    \A t \in Tasks :
        (tasks[t].pc = "ytdlp" /\ tasks[t].choice = "best")
        => /\ tasks[t].mode \in {"video", "photo"}
           /\ "-f" \notin Range(YtDlpArgs(tasks[t].url, tasks[t].mode, tasks[t].choice))
           /\ "best" \notin Range(YtDlpArgs(tasks[t].url, tasks[t].mode, tasks[t].choice))

\* the primary tool is running for a YouTube URL in video mode with choice
\* "best"; a height choice for the same URL does carry a filter
C24_Witness ==
    \E t \in Tasks :
        /\ tasks[t].pc = "ytdlp"
        /\ tasks[t].choice = "best"
        /\ tasks[t].mode = "video"
        /\ tasks[t].url = UrlYouTube
        /\ "-f" \in Range(YtDlpArgs(tasks[t].url, tasks[t].mode, "720p"))

\* ------------------------------------------ the pure helpers of the plan
\* The helpers handle_text and process_download_and_send apply to their
\* locals (plan.info, plan.title, plan.description), each run on its own from
\* any input: under FunctionSpec a handler invocation holds the input and,
\* after the call, the value returned.
MaxText == 6

HeightsPool == {1080, 720, 480, 360, 240}

RECURSIVE SeqOfSet(_)
SeqOfSet(S) ==
    IF S = {} THEN << >>
    ELSE LET m == CHOOSE x \in S : \A y \in S : x <= y IN <<m>> \o SeqOfSet(S \ {m})

Reverse(s) == [k \in 1..Len(s) |-> s[Len(s) + 1 - k]]

\* info["formats"] of a probe document: formats with a video codec for the
\* heights V, audio-only formats (vcodec "none", or absent: "None") that carry
\* the heights A, and formats of height 0 and below; in either order
Formats(V, A, av, junk, rev) ==
    LET fs == [k \in 1..Cardinality(A) |-> [height |-> SeqOfSet(A)[k], vcodec |-> av]]
              \o [k \in 1..Cardinality(V) |-> [height |-> SeqOfSet(V)[k], vcodec |-> "avc1"]]
              \o (IF junk THEN <<[height |-> 0, vcodec |-> "avc1"],
                                 [height |-> -1, vcodec |-> "vp9"]>>
                  ELSE << >>)
    IN IF rev THEN Reverse(fs) ELSE fs

Infos ==
    {[formats |-> Formats(V, A, av, junk, rev)] :
        V \in SUBSET HeightsPool, A \in SUBSET HeightsPool,
        av \in {"none", "None"}, junk \in BOOLEAN, rev \in BOOLEAN}

\* sorted(heights, reverse=True)
RECURSIVE SortedReverse(_)
SortedReverse(S) ==
    IF S = {} THEN << >>
    ELSE LET m == CHOOSE x \in S : \A y \in S : x >= y IN <<m>> \o SortedReverse(S \ {m})

extract_available_heights(info) ==
    LET fmts == info.formats
        heights == {fmts[k].height :
                      k \in {i \in 1..Len(fmts) :
                               /\ fmts[i].vcodec \notin {"None", "none"}
                               /\ fmts[i].height > 0}}
    IN SortedReverse(heights)

\* a menu of every available height
AllAvailable(available) == available

pick_menu_heights(available) ==
    LET wanted == <<1080, 720, 480, 360>>
        avail_set == Range(available)
    IN SelectSeq(wanted, LAMBDA h : h \in avail_set)

\* A text is the sequence of its characters; "..." is the one character U+2026.
Ellipsis == "..."

CaptionChars == {"a", " "}

CaptionStrings == UNION {[1..n -> CaptionChars] : n \in 0..MaxText}

Titles == {<< >>, <<"a">>, <<" ", "a", "a", "a", "a", "a", "a">>}

MaxLens == {3, 4}

RECURSIVE rstrip(_)
rstrip(s) ==
    IF s # << >> /\ s[Len(s)] = " " THEN rstrip(SubSeq(s, 1, Len(s) - 1)) ELSE s

RECURSIVE lstrip(_)
lstrip(s) == IF s # << >> /\ s[1] = " " THEN lstrip(Tail(s)) ELSE s

strip(s) == lstrip(rstrip(s))

\* `text` of build_caption before the length test
CaptionText(title, description) ==
    LET desc == strip(description)
        ttl == strip(title)
    IN strip(IF desc # << >> THEN desc ELSE ttl)

build_caption(title, description, max_len) ==
    LET text == CaptionText(title, description) IN
    IF Len(text) > max_len
    THEN Append(rstrip(SubSeq(text, 1, max_len - 1)), Ellipsis)
    ELSE text

FunctionInit ==
    /\ \E call \in {[pc |-> "menu_heights", info |-> i, menu_heights |-> << >>] : i \in Infos}
                   \cup {[pc |-> "build_caption", title |-> ttl, description |-> d,
                          max_len |-> n, caption |-> << >>] :
                            ttl \in Titles, d \in CaptionStrings, n \in MaxLens} :
         tasks = [t \in Tasks |-> IF t = 1 THEN call ELSE IdleTask]
    /\ chat_locks = << >>
    /\ pending_jobs = << >>
    /\ now = 0
    /\ disk = {}
    /\ nextToken = 1
    /\ nextJob = 1
    /\ resolved = [k \in Tokens |-> 0]
    /\ started = [k \in Tokens |-> 0]
    /\ arrivals = 0

\* menu_heights = pick_menu_heights(extract_available_heights(plan.info))
MenuHeights(t) ==
    /\ tasks[t].pc = "menu_heights"
    /\ Set(t, [tasks[t] EXCEPT
                 !.pc = "menu_done",
                 !.menu_heights = pick_menu_heights(extract_available_heights(tasks[t].info))])
    /\ UNCHANGED <<chat_locks, pending_jobs, now, disk, nextToken, nextJob, resolved, started, arrivals>>

\* caption = build_caption(plan.title, plan.description)
BuildCaption(t) ==
    /\ tasks[t].pc = "build_caption"
    /\ Set(t, [tasks[t] EXCEPT
                 !.pc = "caption_done",
                 !.caption = build_caption(tasks[t].title, tasks[t].description,
                                           tasks[t].max_len)])
    /\ UNCHANGED <<chat_locks, pending_jobs, now, disk, nextToken, nextJob, resolved, started, arrivals>>

FunctionNext == \E t \in Tasks : MenuHeights(t) \/ BuildCaption(t)

FunctionSpec == FunctionInit /\ [][FunctionNext]_vars

\* the heights of the formats of the document that carry a video codec
VideoHeights(info) ==
    {info.formats[k].height :
        k \in {i \in 1..Len(info.formats) : info.formats[i].vcodec \notin {"None", "none"}}}

\* C25: the menu heights are exactly the members of the preference list
\* [1080, 720, 480, 360] that occur as a positive height of some format with
\* a video codec in the probe metadata, in preference-list order; heights of
\* audio-only formats and heights outside the list never appear (video
\* heights 1080, 720, 480, 240 give [1080, 720, 480]).
C25_MenuHeights ==
    \A t \in Tasks :
        tasks[t].pc = "menu_done"
        => LET vh == {h \in VideoHeights(tasks[t].info) : h > 0}
               m == tasks[t].menu_heights
           IN
           /\ m = SelectSeq(<<1080, 720, 480, 360>>, LAMBDA h : h \in vh)
           /\ vh = {1080, 720, 480, 240} => m = <<1080, 720, 480>>

\* the menu of a document whose video formats have the heights 1080, 720,
\* 480 and 240 and which has an audio-only format carrying the height 360
C25_Witness ==
    \E t \in Tasks :
        /\ tasks[t].pc = "menu_done"
        /\ VideoHeights(tasks[t].info) = {1080, 720, 480, 240}
        /\ \E k \in 1..Len(tasks[t].info.formats) :
             /\ tasks[t].info.formats[k].height = 360
             /\ tasks[t].info.formats[k].vcodec = "none"
        /\ tasks[t].menu_heights = <<1080, 720, 480>>

\* C26: for every title and description whose caption text is longer than
\* the maximum length, build_caption returns a text of exactly the maximum
\* length whose last character is the ellipsis; a text not longer than the
\* maximum is returned unchanged.
C26_CaptionExactlyMax ==
    \A t \in Tasks :
        tasks[t].pc = "caption_done"
        => LET text == CaptionText(tasks[t].title, tasks[t].description)
               n == tasks[t].max_len
               c == tasks[t].caption
           IN IF Len(text) > n
              THEN Len(c) = n /\ c[n] = Ellipsis
              ELSE c = text

\* the paths the cleanup loop hands to safe_remove
CleanupTargets(downloaded) ==
    {IF InGdl(downloaded[k]) THEN Parent(downloaded[k]) ELSE downloaded[k] :
        k \in 1..Len(downloaded)}

\* a path the executor run of handler invocation r created
OwnPath(r, p) ==
    /\ p # DOWNLOAD_DIR
    /\ \/ p[1] = "yt" /\ p[2] = r.job
       \/ p[1] = "gdl" /\ p[2] = r.gjob

\* C27: the end-of-job cleanup removes only paths the job created: for every
\* list of retrieved files it is never the shared download directory that is
\* removed, and every path that leaves the disk is a path of the job.
C27_CleanupOwnPathsOnly ==
    [][\A t \in Tasks :
         (tasks[t].pc = "final_edit" /\ tasks'[t] = Returned)
         => /\ DOWNLOAD_DIR \notin CleanupTargets(tasks[t].files)
            /\ \A p \in CleanupTargets(tasks[t].files) \cup (disk \ disk') :
                 OwnPath(tasks[t], p)]_vars

\* the owner of a pending token that has not expired picks a download choice
\* while the lock of the token's conversation is held
OwnerChoiceWhileBusy(t, u, data) ==
    /\ Names(data)
    /\ data[2] # "cancel"
    /\ Live(data[3])
    /\ u = pending_jobs[data[3]].user_id
    /\ Held(pending_jobs[data[3]].chat_id)
    /\ OnQualityChoice(t, u, data)

\* C28: when the owner resolves a live token with a download choice while the
\* conversation's lock is held, the token is removed from the registry at
\* once; if the lock is still held when the acknowledgement has returned the
\* choice is answered as busy and no download starts; a token that has left
\* the registry never comes back, so the menu cannot be used again, and a
\* download is started for a token only by a choice that found the lock free.
C28_BusyChoiceConsumesToken ==
    /\ [](\A t \in Tasks :
            (tasks[t].kind = "cb" /\ tasks[t].reply = "busy")
            => /\ tasks[t].token \notin DOMAIN pending_jobs
               /\ resolved[tasks[t].token] = 1
               /\ started[tasks[t].token] = 0)
    /\ [][/\ \A t \in Tasks, u \in Users, data \in CallbackData :
               OwnerChoiceWhileBusy(t, u, data)
               => /\ data[3] \notin DOMAIN pending_jobs'
                  /\ tasks'[t].pc = "answer_progress"
                  /\ tasks'[t].token = data[3]
                  /\ UNCHANGED <<chat_locks, disk, nextJob, started>>
          /\ \A t \in Tasks :
               (/\ tasks[t].pc = "answer_progress"
                /\ Held(tasks[t].chat)
                /\ tasks'[t] # tasks[t])
               => /\ tasks'[t].pc = "answer"
                  /\ tasks'[t].reply = "busy"
                  /\ UNCHANGED <<chat_locks, pending_jobs, disk, nextJob, started>>
          /\ \A k \in Tokens :
               /\ (k < nextToken /\ k \notin DOMAIN pending_jobs)
                  => k \notin DOMAIN pending_jobs'
               /\ started'[k] # started[k]
                  => \E t \in Tasks :
                       /\ tasks[t].pc = "answer_progress"
                       /\ tasks[t].token = k
                       /\ ~Held(tasks[t].chat)
          /\ RejectionEnds]_vars

\* the owner's choice has been answered as busy: a pipeline of another
\* request is in flight for the conversation, the token is gone and no
\* download was started for it
C28_Witness ==
    \E t, x \in Tasks :
        /\ tasks[t].kind = "cb"
        /\ tasks[t].pc = "answer"
        /\ tasks[t].reply = "busy"
        /\ tasks[t].choice \in {"best", "mp3", "720p"}
        /\ InFlight(x, tasks[t].chat)
        /\ tasks[x].kind = "text"
        /\ tasks[t].token \notin DOMAIN pending_jobs
        /\ started[tasks[t].token] = 0

\* conversation c has a pending token that has not expired
MenuOpen(c) == \E k \in DOMAIN pending_jobs : Live(k) /\ pending_jobs[k].chat_id = c

\* C29: after handle_text has registered a pending token and presented the
\* quality menu it releases the conversation lock and leaves the token in the
\* registry; while a menu is open and the lock is free a new URL message of
\* the same conversation is accepted and leaves the pending tokens alone; and
\* the owner's resolution of one live token leaves every other live token
\* of the registry in place.
C29_MenuDoesNotHoldLock ==
    [][/\ \A t \in Tasks :
            (tasks[t].pc = "menu_edit" /\ tasks'[t] = Returned)
            => /\ ~(tasks[t].chat \in DOMAIN chat_locks' /\ chat_locks'[tasks[t].chat])
               /\ UNCHANGED pending_jobs
       /\ \A t \in Tasks, c \in Chats, text \in Urls :
            (MenuOpen(c) /\ ~Held(c) /\ HandleText(t, c, text))
            => /\ tasks'[t].pc = "reply_status"
               /\ UNCHANGED pending_jobs
       /\ \A t \in Tasks, u \in Users, data \in CallbackData :
            (/\ Names(data)
             /\ Live(data[3])
             /\ u = pending_jobs[data[3]].user_id
             /\ OnQualityChoice(t, u, data))
            => /\ data[3] \notin DOMAIN pending_jobs'
               /\ \A k \in DOMAIN pending_jobs \ {data[3]} : Live(k) => Kept(k)]_vars

\* two live tokens of one conversation coexist while the conversation's lock
\* is free: the second menu was asked for while the first was open
C29_Witness ==
    \E k1, k2 \in DOMAIN pending_jobs :
        /\ k1 # k2
        /\ Live(k1)
        /\ Live(k2)
        /\ pending_jobs[k1].chat_id = pending_jobs[k2].chat_id
        /\ ~Held(pending_jobs[k1].chat_id)
        /\ \A t \in Tasks : Free(t)
====
